---------------------------- MODULE Spec2Model ----------------------------
(***************************************************************************)
(* Dataset composition and sampling configuration of Fast-LLM              *)
(* (fast_llm/data/dataset/config.py, fast_llm/utils.py), the Interrupter   *)
(* of fast_llm/utils.py and PushConfig.run of tools/push_model.py.         *)
(*                                                                         *)
(* Numbers that are Python floats in the source (slice fractions, blending *)
(* weights) are modelled as exact rationals <<numerator, denominator>>     *)
(* with a positive denominator, kept in lowest terms.                      *)
(***************************************************************************)
EXTENDS Integers, Naturals, Sequences, FiniteSets, TLC

(***************************************************************************)
(* Bounds of the model.                                                    *)
(***************************************************************************)
\* Largest world size (number of ranks) explored.
MaxWorld == 4
\* Largest number of get_next_rank calls in one resolution pass.
MaxCalls == 8
\* Largest number of SamplingData objects alive (the root and its copies).
MaxContexts == 3
\* Seeds explored besides the default one: 0..MaxSeed.
MaxSeed == 1
\* Largest denominator of a slice fraction (begin, end).
MaxDen == 10
\* Largest corpus length.
MaxLen == 10
\* Largest number of sub-datasets or weights of a config.
MaxBranches == 3
\* Largest raw blending weight (weights range over -1..MaxWeight).
MaxWeight == 2
\* Largest length of a sub-dataset of a concatenation.
MaxPartLen == 3
\* Lengths of the datasets under a concatenation: the small ones and three
\* larger ones.
PartSizes == (0..MaxPartLen) \cup {5, 10, 20}

\* Largest number of sub-nodes of a blend in a tree of nested blends.
TreeBranches == 3

\* Significand bits of the binary floating-point format in which repeated
\* normalisation is computed (a float64 has 53), the range of exponents
\* searched when rounding, and the largest raw weight normalised that way.
FloatBits == 5
FloatExponents == 12
FloatWeight == 3

\* Largest number of signals an Interrupter handles between two __enter__.
MaxSignals == 3
\* Largest iteration number of a checkpoint.
MaxCheckpoints == 3

\* Largest number of samples requested from a blend.
MaxSamples == 4
\* Interleaving: largest number of branches, largest raw weight and largest
\* number of output positions.
InterleaveBranches == 5
InterleaveWeight == 6
MaxPositions == 10

(***************************************************************************)
(* Program constants.                                                      *)
(***************************************************************************)
\* SamplingConfig.seed default.
default_seed == 784569
\* First value of a fresh itertools.count() object.
itertools_count_start == 0

Seeds == (0..MaxSeed) \cup {default_seed}
\* A SamplingConfig: its field values and the names of the fields that
\* were set explicitly (the others hold their defaults).
SamplingConfig(seed, explicit) ==
    [seed |-> IF explicit THEN seed ELSE default_seed,
     set_fields |-> IF explicit THEN {"seed"} ELSE {}]

(***************************************************************************)
(* Exact rational arithmetic for the float computations of the source.     *)
(***************************************************************************)
Abs(n) == IF n < 0 THEN -n ELSE n

RECURSIVE GCD(_, _)
GCD(a, b) == IF b = 0 THEN a ELSE GCD(b, a % b)

\* The rational n/d (d # 0) in lowest terms with a positive denominator.
Rat(n, d) ==
    LET g == GCD(Abs(n), Abs(d))
        sgn == IF d < 0 THEN -1 ELSE 1
    IN  <<sgn * (n \div g), sgn * (d \div g)>>

RatOfInt(n) == <<n, 1>>
RatAdd(x, y) == Rat(x[1] * y[2] + y[1] * x[2], x[2] * y[2])
RatSub(x, y) == Rat(x[1] * y[2] - y[1] * x[2], x[2] * y[2])
RatMul(x, y) == Rat(x[1] * y[1], x[2] * y[2])
\* x / y for y # 0
RatDiv(x, y) == Rat(x[1] * y[2], x[2] * y[1])
RatLt(x, y) == x[1] * y[2] < y[1] * x[2]
RatLeq(x, y) == x[1] * y[2] <= y[1] * x[2]

RECURSIVE RatSum(_)
RatSum(xs) == IF xs = <<>> THEN RatOfInt(0) ELSE RatAdd(Head(xs), RatSum(Tail(xs)))

\* Sum of a sequence of integers.
RECURSIVE SeqSum(_)
SeqSum(xs) == IF xs = <<>> THEN 0 ELSE Head(xs) + SeqSum(Tail(xs))

\* Floor division for a positive divisor and any dividend.
FloorDiv(n, d) == IF n >= 0 THEN n \div d ELSE -((-n + d - 1) \div d)

\* math.ceil(x)
math_ceil(x) == -FloorDiv(-x[1], x[2])

\* Mutant: halves are rounded up.
round_half_up(x) ==
    FloorDiv(2 * x[1] + x[2], 2 * x[2])

\* round(x): Python rounds to the nearest integer, ties to the even one.
round(x) ==
    LET f == FloorDiv(x[1], x[2])
        twice == 2 * (x[1] - f * x[2])
    IN  IF twice < x[2] THEN f
        ELSE IF twice > x[2] THEN f + 1
        ELSE IF f % 2 = 0 THEN f ELSE f + 1

VARIABLES
    world_size,   \* distributed.config.world_size of the resolution pass
    contexts,     \* the SamplingData objects: the root context and its copies
    iterators,    \* the itertools.count objects created so far (next value of each)
    rank_calls,   \* the ranks returned by the get_next_rank calls, in call order
    callers,      \* the contexts get_next_rank was called on
    node,         \* the dataset config object
    given,        \* the config as it was handed to the constructor
    status,       \* lifecycle of the config object
    built,        \* the dataset made by build()
    wrapped_builds, \* number of build() calls made on wrapped sub-datasets
    passed,       \* the SamplingData as the caller passed it to build_and_sample
    sampling,     \* the caller's SamplingData object after build_and_sample
    requests,     \* the SamplingData passed to the sub-nodes, in call order
    blended,      \* the BlendedDataset made by build_and_sample
    resolved,     \* the sub-nodes build_and_sample was called on, in call order
    position,     \* number of output positions of the blend assigned so far
    drawn,        \* number of positions assigned to each branch so far
    tree,         \* per sub-node of a root blend: 0 for a leaf, else the
                  \* number of leaves of the blend nested there
    leaves,       \* per sub-node of the root, the contexts its leaves got
    corpus,       \* length of an indexed dataset that is split into slices
    split_configs, \* the slice configs of the split, in order
    splits,       \* the slices built from them so far
    interrupter,  \* the fields of an Interrupter object and whether it is entered
    handlers,     \* the handler the process has installed for each signal
    handled,      \* what _handle_signal did, per call, since the last __enter__
    push_pc,      \* where PushConfig.run is
    export_dirs,  \* iteration numbers of the checkpoint directories under export
    committed_iter_numbers,  \* iteration numbers already committed to the repo
    new_checkpoint_paths,    \* the list run() iterates over
    loop_index,   \* index in new_checkpoint_paths of the checkpoint in progress
    commit_info,  \* iteration whose upload future commit_info holds, 0 for None
    futures,      \* state of the upload future of each iteration
    tmp_checkpoint_dir,      \* the temporary checkpoint directory
    relinked      \* iterations whose files were linked into it, in order

rank_vars == <<world_size, contexts, iterators, rank_calls, callers>>
config_vars == <<node, given, status, built, wrapped_builds, passed, sampling, requests, blended,
                resolved>>
blend_vars == <<position, drawn>>
tree_vars == <<tree, leaves>>
split_vars == <<corpus, split_configs, splits>>
int_vars == <<interrupter, handlers, handled>>
push_vars == <<push_pc, export_dirs, committed_iter_numbers, new_checkpoint_paths,
               loop_index, commit_info, futures, tmp_checkpoint_dir, relinked>>
tool_vars == <<int_vars, push_vars>>
vars == <<rank_vars, config_vars, blend_vars, tree_vars, split_vars, tool_vars>>

(***************************************************************************)
(* SamplingData                                                            *)
(***************************************************************************)
\* A SamplingData object as the dataclass constructor makes it: the field
\* _rank_counter defaults to the callable itertools.count itself.
SamplingData(seed, num_samples, name) ==
    [config |-> [seed |-> seed],
     parameters |-> [num_samples |-> num_samples],
     cache_directory |-> "None",
     distributed |-> "Distributed",
     dataset_name |-> name,
     rank_counter |-> "itertools.count"]

\* dataclasses.replace(obj, **changes): a new object with the same field
\* values (references included) except for the changed fields.
dataclasses_replace(obj, changes) ==
    [f \in DOMAIN obj |-> IF f \in DOMAIN changes THEN changes[f] ELSE obj[f]]

\* Config.from_dict(base, update.to_dict(), update_type=UpdateType.update):
\* explicitly set fields of the update override, the others are inherited.
Config_from_dict_update(base, update) ==
    [f \in DOMAIN base |->
        IF f \in update.set_fields THEN update[f] ELSE base[f]]

\* Mutant: the override replaces the config instead of being merged into it.
update_config_replaces_config(self, update) ==
    dataclasses_replace(self, [config |-> [seed |-> update.seed]])

\* SamplingData.update_config(update)
update_config(self, update) ==
    dataclasses_replace(self, [config |-> Config_from_dict_update(self.config, update)])

\* Mutant: the merged config is assigned to the receiver.
update_config_self_in_place(self, update) ==
    [self EXCEPT !.config = Config_from_dict_update(self.config, update)]

\* SamplingData.update_config(update): the receiver after the call.  The
\* method assigns to no field of self.
update_config_self(self, update) == self

\* self._rank_counter(): calling the field. The field holds the class
\* itertools.count, so the call constructs a fresh count object.
rank_counter_call(self, heap) ==
    Append(heap, itertools_count_start)

\* next(it) on the count object at heap address it: the value returned.
next_value(heap, it) == heap[it]

\* next(it): the heap after the count object advanced by one.
next_heap(heap, it) == [heap EXCEPT ![it] = heap[it] + 1]

\* SamplingData.get_next_rank(): the rank returned and the heap afterwards.
get_next_rank(self, heap, world) ==
    LET heap1 == rank_counter_call(self, heap)
        it == Len(heap1)
    IN  [rank |-> next_value(heap1, it) % world, heap |-> next_heap(heap1, it)]

(***************************************************************************)
(* Dataset configs.  Every config object is a record with the fields of    *)
(* all kinds; the fields a kind does not declare hold a fixed filler.      *)
(***************************************************************************)
\* DatasetSliceConfig(dataset, begin, end)
DatasetSliceConfig(begin, end) ==
    [kind |-> "slice", name |-> "slice", datasets |-> <<1>>,
     begin |-> begin, end |-> end, weights |-> <<>>, legacy |-> FALSE,
     sampling |-> SamplingConfig(default_seed, FALSE)]

\* ConcatenatedDatasetConfig(name, datasets)
ConcatenatedDatasetConfig(datasets) ==
    [kind |-> "concatenated", name |-> "concatenated", datasets |-> datasets,
     begin |-> RatOfInt(0), end |-> RatOfInt(1), weights |-> <<>>, legacy |-> FALSE,
     sampling |-> SamplingConfig(default_seed, FALSE)]

\* BlendedDatasetConfig(name, datasets, weights, legacy)
BlendedDatasetConfig(datasets, weights, is_legacy) ==
    [kind |-> "blended", name |-> "blended", datasets |-> datasets,
     begin |-> RatOfInt(0), end |-> RatOfInt(1), weights |-> weights,
     legacy |-> is_legacy, sampling |-> SamplingConfig(default_seed, FALSE)]

\* A concrete SampledDatasetUpdateConfig(sampling, dataset)
SampledDatasetUpdateConfig(sampling_config) ==
    [kind |-> "update", name |-> "update", datasets |-> <<1>>,
     begin |-> RatOfInt(0), end |-> RatOfInt(1), weights |-> <<>>,
     legacy |-> FALSE, sampling |-> sampling_config]

\* Mutant: the check accepts the empty list (>= for >).
Concatenated_datasets_valid_allows_empty(datasets) == Len(datasets) >= 0

\* The `valid` check of ConcatenatedDatasetConfig.datasets:
\* Assert.custom(lambda x: len(x) > 0)
Concatenated_datasets_valid(datasets) == Len(datasets) > 0

\* Config._validate(): runs the `valid` check of every field that declares
\* one.  Only ConcatenatedDatasetConfig.datasets declares one.
Config_validate_ok(self) ==
    self.kind = "concatenated" => Concatenated_datasets_valid(self.datasets)

\* Mutant: only the sum is checked, not the sign of each entry.
normalize_probabilities_ok_sum_only(p) ==
    RatLt(RatOfInt(0), RatSum(p))

\* normalize_probabilities: the two assertions,
\* Assert.custom(lambda x: np.all(x >= 0), p) and Assert.gt(p.sum(), 0).
normalize_probabilities_ok(p) ==
    /\ \A i \in 1..Len(p) : RatLeq(RatOfInt(0), p[i])
    /\ RatLt(RatOfInt(0), RatSum(p))

\* Mutant: the array is returned without the division by its sum.
normalize_probabilities_undivided(p) ==
    [i \in 1..Len(p) |-> p[i]]

\* Mutant: the array is divided by its length instead of its sum.
normalize_probabilities_by_length(p) ==
    [i \in 1..Len(p) |-> RatDiv(p[i], RatOfInt(Len(p)))]

\* normalize_probabilities: the value returned, p / p.sum() as a list.
normalize_probabilities(p) ==
    LET p_sum == RatSum(p)
    IN  [i \in 1..Len(p) |-> RatDiv(p[i], p_sum)]

\* Mutant: the minimum of 2 datasets is not asserted.
Blended_lengths_ok_no_minimum(datasets, weights) ==
    Len(datasets) = Len(weights)

\* BlendedDatasetConfig._validate: the two assertions after super()._validate(),
\* Assert.geq(len(datasets), 2) and Assert.eq(len(datasets), len(weights)).
Blended_lengths_ok(datasets, weights) ==
    /\ Len(datasets) >= 2
    /\ Len(datasets) = Len(weights)

\* BlendedDatasetConfig._validate: whether it returns normally, and the
\* object afterwards (weights are assigned before the later assertions run).
BlendedDatasetConfig_validate(self) ==
    IF ~normalize_probabilities_ok(self.weights)
    THEN [ok |-> FALSE, self |-> self]
    ELSE LET normalized == [self EXCEPT !.weights = normalize_probabilities(self.weights)]
         IN  [ok |-> /\ Config_validate_ok(normalized)
                     /\ Blended_lengths_ok(normalized.datasets, normalized.weights),
              self |-> normalized]

\* Validation of a config object of any kind.
validate(self) ==
    IF self.kind = "blended"
    THEN BlendedDatasetConfig_validate(self)
    ELSE [ok |-> Config_validate_ok(self), self |-> self]

(***************************************************************************)
(* Validation in floating point: numpy divides and sums in binary          *)
(* floating point, every result rounded to the nearest representable       *)
(* value, ties to the even significand.                                    *)
(***************************************************************************)
RECURSIVE Pow2(_)
Pow2(k) == IF k = 0 THEN 1 ELSE 2 * Pow2(k - 1)

\* x / 2^e
Scaled(x, e) == IF e >= 0 THEN <<x[1], x[2] * Pow2(e)>> ELSE <<x[1] * Pow2(-e), x[2]>>

\* The float nearest to the non-negative real x: the significand of x,
\* scaled into [2^(FloatBits-1), 2^FloatBits), is rounded half-to-even.
float(x) ==
    IF x[1] = 0
    THEN RatOfInt(0)
    ELSE LET e == CHOOSE k \in (-FloatExponents)..FloatExponents :
                      /\ RatLeq(RatOfInt(Pow2(FloatBits - 1)), Scaled(x, k))
                      /\ RatLt(Scaled(x, k), RatOfInt(Pow2(FloatBits)))
             m == round(Scaled(x, e))
         IN  IF e >= 0 THEN Rat(m * Pow2(e), 1) ELSE Rat(m, Pow2(-e))

\* p.sum(): the entries are added from left to right, each partial sum
\* rounded.
RECURSIVE float_sum(_, _)
float_sum(acc, xs) ==
    IF xs = <<>> THEN acc ELSE float_sum(float(RatAdd(acc, Head(xs))), Tail(xs))

\* normalize_probabilities in floating point: p / p.sum().
normalize_probabilities_float(p) ==
    LET p_sum == float_sum(RatOfInt(0), p)
    IN  [i \in 1..Len(p) |-> float(RatDiv(p[i], p_sum))]

\* normalize_probabilities in floating point: the two assertions.
normalize_probabilities_float_ok(p) ==
    /\ \A i \in 1..Len(p) : RatLeq(RatOfInt(0), p[i])
    /\ RatLt(RatOfInt(0), float_sum(RatOfInt(0), p))

\* BlendedDatasetConfig._validate in floating point.
BlendedDatasetConfig_validate_float(self) ==
    IF ~normalize_probabilities_float_ok(self.weights)
    THEN [ok |-> FALSE, self |-> self]
    ELSE LET normalized ==
                [self EXCEPT !.weights = normalize_probabilities_float(self.weights)]
         IN  [ok |-> /\ Config_validate_ok(normalized)
                     /\ Blended_lengths_ok(normalized.datasets, normalized.weights),
              self |-> normalized]

\* math.ceil(weight * num_samples) + 1 in floating point.
default_num_samples_float(weight, num_samples) ==
    math_ceil(float(RatMul(weight, RatOfInt(num_samples)))) + 1

(***************************************************************************)
(* build()                                                                 *)
(***************************************************************************)
NoDataset ==
    [kind |-> "none", begin |-> 0, end |-> 0, size |-> 0, parts |-> <<>>,
     offsets |-> <<>>]

\* Mutant: the running sums without the leading 0.
padded_cumsum_unpadded(x) ==
    [j \in 1..Len(x) |-> SeqSum(SubSeq(x, 1, j))]

\* padded_cumsum(x): the running sums of x after a leading 0.
padded_cumsum(x) ==
    [j \in 1..(Len(x) + 1) |-> SeqSum(SubSeq(x, 1, j - 1))]

\* DatasetSlice(name, dataset, begin, end) over a dataset of the given size.
DatasetSlice(size, begin_index, end_index) ==
    [kind |-> "slice", begin |-> begin_index, end |-> end_index, size |-> size,
     parts |-> <<>>, offsets |-> <<>>]

\* ConcatenatedDataset(name, datasets): keeps the datasets in the order given
\* and the cumulative offsets of their lengths.
ConcatenatedDataset(datasets) ==
    [kind |-> "concatenated", begin |-> 0, end |-> 0, size |-> 0,
     parts |-> datasets,
     offsets |-> padded_cumsum([j \in 1..Len(datasets) |-> datasets[j].size])]

\* len(concatenated): the last offset.
ConcatenatedDataset_len(self) == self.offsets[Len(self.offsets)]

\* concatenated[i]: the dataset whose offsets enclose i (0-based) and the
\* index within it.
ConcatenatedDataset_getitem(self, i) ==
    LET j == CHOOSE k \in 1..Len(self.parts) :
                 self.offsets[k] <= i /\ i < self.offsets[k + 1]
    IN  <<j - 1, i - self.offsets[j]>>

\* len(slice) and slice[i] of a DatasetSlice: the elements begin..end-1 of the
\* wrapped dataset, in order.
DatasetSlice_len(self) == self.end - self.begin
DatasetSlice_getitem(self, i) == self.begin + i

\* Mutant: the boundaries are rounded down.
DatasetSliceConfig_build_floored(self, size) ==
    DatasetSlice(size,
                 FloorDiv(self.begin[1] * size, self.begin[2]),
                 FloorDiv(self.end[1] * size, self.end[2]))

\* Mutant: the end index is taken to be the last element, not one past it.
DatasetSliceConfig_build_end_inclusive(self, size) ==
    DatasetSlice(size,
                 round(RatMul(self.begin, RatOfInt(size))),
                 round(RatMul(self.end, RatOfInt(size))) + 1)

\* Mutant: the end index is the begin index plus the rounded length.
DatasetSliceConfig_build_by_length(self, size) ==
    DatasetSlice(size,
                 round(RatMul(self.begin, RatOfInt(size))),
                 round(RatMul(self.begin, RatOfInt(size)))
                    + round(RatMul(RatSub(self.end, self.begin), RatOfInt(size))))

\* DatasetSliceConfig._build, where size = len(self.dataset.build()).
DatasetSliceConfig_build(self, size) ==
    DatasetSlice(size,
                 round(RatMul(self.begin, RatOfInt(size))),
                 round(RatMul(self.end, RatOfInt(size))))

\* ConcatenatedDatasetConfig._build, where sizes[d] is the length of what
\* dataset d builds.
ConcatenatedDatasetConfig_build(self, sizes) ==
    ConcatenatedDataset(
        [j \in 1..Len(self.datasets) |->
            [dataset |-> self.datasets[j], size |-> sizes[self.datasets[j]]]])

(***************************************************************************)
(* BlendedDatasetConfig.build_and_sample                                   *)
(***************************************************************************)
\* The seed stride between the branches of a non-legacy blend.
seed_stride == 697

\* Mutant: the binomial margin 5 * sqrt(N * (1 - w)) is left out.
legacy_num_samples_no_margin(weight, num_samples) ==
    math_ceil(RatMul(weight, RatOfInt(num_samples)))

\* The legacy sample count ceil(w * (N + 5 * sqrt(N * (1 - w)))) for a weight
\* w = n/d in [0, 1]: the least integer m with
\*   m * d - n * N >= 0  and  (m * d - n * N)^2 * d >= 25 * n^2 * N * (d - n).
legacy_num_samples(weight, num_samples) ==
    LET n == weight[1]
        d == weight[2]
        AtLeast(m) ==
            /\ m * d - n * num_samples >= 0
            /\ (m * d - n * num_samples) * (m * d - n * num_samples) * d
                    >= 25 * n * n * num_samples * (d - n)
    IN  CHOOSE m \in 0..(6 * num_samples + 6) :
            AtLeast(m) /\ (m = 0 \/ ~AtLeast(m - 1))

\* Mutant: the branch count is truncated instead of rounded up and padded.
default_num_samples_truncated(weight, num_samples) ==
    FloorDiv(weight[1] * num_samples, weight[2])

\* Mutant: the extra sample is not added.
default_num_samples_exact_share(weight, num_samples) ==
    math_ceil(RatMul(weight, RatOfInt(num_samples)))

\* The default sample count math.ceil(weight * num_samples) + 1.
default_num_samples(weight, num_samples) ==
    math_ceil(RatMul(weight, RatOfInt(num_samples))) + 1

\* num_samples requested from a branch of weight `weight`.
branch_num_samples(self, weight, num_samples) ==
    IF self.legacy
    THEN legacy_num_samples(weight, num_samples)
    ELSE default_num_samples(weight, num_samples)

\* Mutant: the branch index is taken 1-based.
branch_seed_one_based(self, seed, i) ==
    seed + (i + 1) * (IF self.legacy THEN 0 ELSE seed_stride)

\* The seed given to branch i (0-based): seed + i * (0 if legacy else 697).
branch_seed(self, seed, i) ==
    seed + i * (IF self.legacy THEN 0 ELSE seed_stride)

\* The SamplingData passed to branch i (0-based) of the blend.
branch_sampling(self, data, i) ==
    dataclasses_replace(data,
        [parameters |-> [num_samples |->
            branch_num_samples(self, self.weights[i + 1], data.parameters.num_samples)],
         config |-> [seed |-> branch_seed(self, data.config.seed, i)]])

\* Mutant: the sub-nodes are visited from the last to the first.
resolution_order_reversed(self, made) ==
    [j \in 1..made |-> self.datasets[Len(self.datasets) + 1 - j]]

\* The sub-nodes visited by the comprehension over
\* enumerate(zip(self.datasets, self.weights)) when `made` calls were made:
\* the first `made` entries of self.datasets, in list order.
resolution_order(self, made) ==
    [j \in 1..made |-> self.datasets[j]]

\* Mutant: the replaced fields are assigned to the object itself.
replace_self_in_place(obj, changed) ==
    [f \in DOMAIN obj |-> changed[f]]

\* dataclasses.replace(obj, **changes) and config.to_copy(...): the object
\* they were applied to, after the call.  `changed` is the object they
\* return; both build a new object and assign to no field of obj.
replace_self(obj, changed) == obj

\* The argument `sampling` of build_and_sample after the contexts of the
\* first `made` branches have been derived from it.
RECURSIVE sampling_after(_, _, _)
sampling_after(self, data, made) ==
    IF made = 0
    THEN data
    ELSE LET before == sampling_after(self, data, made - 1)
         IN  replace_self(before, branch_sampling(self, before, made - 1))

\* Mutant: the context of the last branch is handed to the BlendedDataset.
blended_sampling_of_last_branch(self, data) ==
    branch_sampling(self, data, Len(self.datasets) - 1)

\* The SamplingData handed to BlendedDataset(...): the argument `sampling`
\* of build_and_sample itself.
blended_sampling(self, data) == data

NoBlended == [kind |-> "none", name |-> "", weights |-> <<>>, num_samples |-> 0,
              seed |-> 0, datasets |-> <<>>]

\* BlendedDataset(name, sampled_datasets, weights, sampling_config), where
\* sampled_datasets are given by their lengths.
BlendedDataset(name, sampled_datasets, weights, data) ==
    [kind |-> "blended", name |-> name, weights |-> weights,
     num_samples |-> data.parameters.num_samples, seed |-> data.config.seed,
     datasets |-> sampled_datasets]

(***************************************************************************)
(* Interrupter (fast_llm/utils.py)                                         *)
(***************************************************************************)
Signums == {"SIGINT", "SIGTERM"}

\* What a process can have installed for a signal before an Interrupter is
\* entered: Python callables and the two dispositions SIG_DFL and SIG_IGN,
\* which are not callable.
Dispositions == {"default_int_handler", "user_handler", "SIG_DFL", "SIG_IGN"}

callable(handler) == handler \in {"default_int_handler", "user_handler", "_handle_signal"}

\* The handlers of a Python process that installed none.
ProcessDefaults ==
    [s \in Signums |-> IF s = "SIGINT" THEN "default_int_handler" ELSE "SIG_DFL"]

NoOldSignals == [s \in Signums |-> "none"]

\* Interrupter(enabled, signals) after __init__: _interrupted and
\* _old_signals are not assigned yet.  handlers_at_entry keeps what the
\* process had installed when __enter__ was last called.
Interrupter(enabled, signals) ==
    [enabled |-> enabled, signals |-> signals, interrupted |-> "unset",
     old_signals |-> NoOldSignals, entered |-> FALSE,
     handlers_at_entry |-> NoOldSignals]

NoInterrupter == Interrupter(FALSE, <<>>)

\* The dict comprehension of __enter__ over the first n signals:
\* signal.signal(signum, self._handle_signal) installs the handler and
\* returns the one it replaces, which is stored under signum.
RECURSIVE enter_signals(_, _, _, _)
enter_signals(signals, n, installed, old) ==
    IF n = 0
    THEN [installed |-> installed, old |-> old]
    ELSE LET fore == enter_signals(signals, n - 1, installed, old)
             signum == signals[n]
         IN  [installed |-> [fore.installed EXCEPT ![signum] = "_handle_signal"],
              old |-> [fore.old EXCEPT ![signum] = fore.installed[signum]]]

\* _handle_signal when _interrupted is already True:
\* self._old_signals[signum](signum, frame).  A Python callable is called;
\* SIG_DFL and SIG_IGN are not callable; the handler itself, stored as the
\* old one, calls itself again without end.
repeated_signal(old_handler) ==
    IF old_handler = "_handle_signal" THEN "RecursionError"
    ELSE IF callable(old_handler) THEN "called_old"
    ELSE "TypeError"

(***************************************************************************)
(* PushConfig.run (tools/push_model.py)                                    *)
(***************************************************************************)
Iterations == 1..MaxCheckpoints

\* sorted(new_checkpoint_paths, key=lambda x: x[0]) over directories with
\* the given iteration numbers.
RECURSIVE sorted(_)
sorted(S) ==
    IF S = {}
    THEN <<>>
    ELSE LET least == CHOOSE i \in S : \A j \in S : i <= j
         IN  <<least>> \o sorted(S \ {least})

\* Mutant: the previous upload is not waited for.
commit_result_returns_at_once(commit, futs) == TRUE

\* commit_info.result() can return (or raise): there is no previous upload
\* or its future has finished.
commit_result_returns(commit, futs) ==
    IF commit = 0 THEN TRUE ELSE futs[commit] \in {"done", "failed"}

\* Uploads submitted to the executor and not finished.
InFlight(futs) == {i \in Iterations : futs[i] \in {"queued", "running"}}

NoFutures == [i \in Iterations |-> "none"]

NoDirectory == [exists |-> FALSE, content |-> 0, rewriting |-> FALSE]

(***************************************************************************)
(* Life of one config object: construction, validation, build.             *)
(***************************************************************************)
Fractions == {Rat(n, d) : n \in -1..(MaxDen + 1), d \in 1..MaxDen}
SliceFractions == {f \in Fractions : RatLeq(Rat(-1, MaxDen), f) /\ RatLeq(f, Rat(MaxDen + 1, MaxDen))}
RawWeights == {RatOfInt(w) : w \in -1..MaxWeight}
DatasetLists == {[j \in 1..k |-> j] : k \in 0..MaxBranches}
WeightLists == UNION {[1..k -> RawWeights] : k \in 0..MaxBranches}
FloatWeightLists ==
    UNION {[1..k -> {RatOfInt(w) : w \in -1..FloatWeight}] : k \in 0..MaxBranches}

Configs ==
    {DatasetSliceConfig(b, e) : b \in SliceFractions, e \in SliceFractions}
    \cup {ConcatenatedDatasetConfig(ds) : ds \in DatasetLists}
    \cup {BlendedDatasetConfig(ds, ws, l) :
            ds \in DatasetLists, ws \in WeightLists, l \in BOOLEAN}
    \cup {SampledDatasetUpdateConfig(SamplingConfig(s, e)) :
            s \in Seeds, e \in BOOLEAN}

NoSampling == SamplingData(default_seed, 0, "")

ConfigInit ==
    /\ world_size = 1
    /\ contexts = <<>>
    /\ iterators = <<>>
    /\ rank_calls = <<>>
    /\ callers = {}
    /\ node \in Configs
    /\ given = node
    /\ status = "constructed"
    /\ built = NoDataset
    /\ wrapped_builds = 0
    /\ passed = NoSampling
    /\ sampling = NoSampling
    /\ requests = <<>>
    /\ blended = NoBlended
    /\ resolved = <<>>
    /\ position = 0
    /\ tree = <<>>
    /\ leaves = <<>>
    /\ corpus = 0
    /\ split_configs = <<>>
    /\ splits = <<>>
    /\ interrupter = NoInterrupter
    /\ handlers = ProcessDefaults
    /\ handled = <<>>
    /\ push_pc = "idle"
    /\ export_dirs = {}
    /\ committed_iter_numbers = {}
    /\ new_checkpoint_paths = <<>>
    /\ loop_index = 0
    /\ commit_info = 0
    /\ futures = NoFutures
    /\ tmp_checkpoint_dir = NoDirectory
    /\ relinked = <<>>
    /\ drawn = <<>>

\* The config is validated (Config.validate -> _validate).
Validate ==
    /\ status = "constructed"
    /\ LET r == validate(node)
       IN  /\ node' = r.self
           /\ status' = IF r.ok THEN "validated" ELSE "error"
    /\ UNCHANGED <<given, built, wrapped_builds, passed, sampling, requests, blended, resolved,
                 rank_vars, blend_vars, tree_vars,
                 split_vars, tool_vars>>

\* DatasetSliceConfig.build() on a wrapped dataset of the given size.
BuildSlice(size) ==
    /\ status = "validated"
    /\ node.kind = "slice"
    /\ wrapped_builds' = wrapped_builds + 1
    /\ built' = DatasetSliceConfig_build(node, size)
    /\ status' = "built"
    /\ UNCHANGED <<node, given, passed, sampling, requests, blended, resolved,
                 rank_vars, blend_vars, tree_vars,
                 split_vars, tool_vars>>

\* ConcatenatedDatasetConfig.build() on sub-datasets of the given sizes.
BuildConcatenated(sizes) ==
    /\ status = "validated"
    /\ node.kind = "concatenated"
    /\ wrapped_builds' = wrapped_builds + Len(node.datasets)
    /\ built' = ConcatenatedDatasetConfig_build(node, sizes)
    /\ status' = "built"
    /\ UNCHANGED <<node, given, passed, sampling, requests, blended, resolved,
                 rank_vars, blend_vars, tree_vars,
                 split_vars, tool_vars>>

\* BlendedDatasetConfig.build_and_sample(data).  The sub-nodes are resolved
\* in list order; fail_at = 0 when all succeed, otherwise the (1-based)
\* branch whose build_and_sample raises.
BuildAndSample(data, fail_at) ==
    /\ status = "validated"
    /\ node.kind = "blended"
    /\ fail_at \in 0..Len(node.datasets)
    /\ passed' = data
    /\ LET made == IF fail_at = 0 THEN Len(node.datasets) ELSE fail_at
       IN  /\ requests' = [j \in 1..made |->
                    branch_sampling(node, sampling_after(node, data, j - 1), j - 1)]
           /\ sampling' = sampling_after(node, data, made)
           /\ resolved' = resolution_order(node, made)
    /\ IF fail_at = 0
       THEN /\ blended' = BlendedDataset(node.name,
                    [j \in 1..Len(node.datasets) |->
                        branch_sampling(node, sampling_after(node, data, j - 1), j - 1)
                            .parameters.num_samples],
                    node.weights,
                    blended_sampling(node, sampling_after(node, data, Len(node.datasets))))
            /\ status' = "sampled"
       ELSE /\ blended' = NoBlended
            /\ status' = "failed"
    /\ UNCHANGED <<node, given, built, wrapped_builds, rank_vars, blend_vars, tree_vars,
                 split_vars, tool_vars>>

\* SampledDatasetUpdateConfig.build_and_sample(data): the wrapped sub-node is
\* resolved with data.update_config(self.sampling); its build_and_sample
\* returns or raises.
BuildAndSampleUpdate(data, fails) ==
    /\ status = "validated"
    /\ node.kind = "update"
    /\ passed' = data
    /\ sampling' = update_config_self(data, node.sampling)
    /\ requests' = <<update_config(data, node.sampling)>>
    /\ resolved' = node.datasets
    /\ status' = IF fails THEN "failed" ELSE "sampled"
    /\ UNCHANGED <<node, given, built, wrapped_builds, blended, rank_vars, blend_vars, tree_vars,
                 split_vars, tool_vars>>

ConfigNext ==
    \/ Validate
    \/ \E size \in 0..MaxLen : BuildSlice(size)
    \/ \E sizes \in [1..MaxBranches -> PartSizes] : BuildConcatenated(sizes)
    \/ \E s \in Seeds, n \in 1..MaxSamples, f \in 0..MaxBranches :
            BuildAndSample(SamplingData(s, n, "dataset"), f)
    \/ \E s \in Seeds, n \in 1..MaxSamples, f \in BOOLEAN :
            BuildAndSampleUpdate(SamplingData(s, n, "dataset"), f)

SpecConfig == ConfigInit /\ [][ConfigNext]_vars

(***************************************************************************)
(* BlendedDataset: largest-deficit interleaving of the branches.           *)
(***************************************************************************)
\* Deficit of a branch of weight w holding c of the first p positions,
\* w * p - c, as a fraction over the denominator of w.
deficit(w, p, c) == <<w[1] * p - c * w[2], w[2]>>

\* The branch given output position p (0-based): the one with the largest
\* deficit against its target w_i * (p + 1), the first of them on a tie.
largest_deficit_branch(weights, counts, p) ==
    CHOOSE i \in 1..Len(weights) :
        \A k \in 1..Len(weights) :
            /\ RatLeq(deficit(weights[k], p + 1, counts[k]),
                      deficit(weights[i], p + 1, counts[i]))
            /\ k < i => RatLt(deficit(weights[k], p + 1, counts[k]),
                              deficit(weights[i], p + 1, counts[i]))

\* Raw weight lists in ascending or in descending order.
Monotone(ws) ==
    \/ \A j \in 1..(Len(ws) - 1) : RatLeq(ws[j], ws[j + 1])
    \/ \A j \in 1..(Len(ws) - 1) : RatLeq(ws[j + 1], ws[j])

InterleaveWeightLists ==
    UNION {{ws \in [1..k -> {RatOfInt(w) : w \in 0..InterleaveWeight}] : Monotone(ws)} :
           k \in 2..InterleaveBranches}

\* A validated default-mode blend about to be interleaved.
InterleaveInit ==
    /\ world_size = 1
    /\ contexts = <<>>
    /\ iterators = <<>>
    /\ rank_calls = <<>>
    /\ callers = {}
    /\ \E ws \in InterleaveWeightLists :
        /\ given = BlendedDatasetConfig([j \in 1..Len(ws) |-> j], ws, FALSE)
        /\ validate(given).ok
        /\ node = validate(given).self
    /\ status = "validated"
    /\ built = NoDataset
    /\ wrapped_builds = 0
    /\ passed = NoSampling
    /\ sampling = NoSampling
    /\ requests = <<>>
    /\ blended = NoBlended
    /\ resolved = <<>>
    /\ position = 0
    /\ tree = <<>>
    /\ leaves = <<>>
    /\ corpus = 0
    /\ split_configs = <<>>
    /\ splits = <<>>
    /\ interrupter = NoInterrupter
    /\ handlers = ProcessDefaults
    /\ handled = <<>>
    /\ push_pc = "idle"
    /\ export_dirs = {}
    /\ committed_iter_numbers = {}
    /\ new_checkpoint_paths = <<>>
    /\ loop_index = 0
    /\ commit_info = 0
    /\ futures = NoFutures
    /\ tmp_checkpoint_dir = NoDirectory
    /\ relinked = <<>>
    /\ drawn = [j \in 1..Len(node.weights) |-> 0]

\* The next output position is assigned to a branch, which hands out its
\* next unconsumed local sample.
AssignPosition ==
    /\ position < MaxPositions
    /\ LET i == largest_deficit_branch(node.weights, drawn, position)
       IN  drawn' = [drawn EXCEPT ![i] = drawn[i] + 1]
    /\ position' = position + 1
    /\ UNCHANGED <<rank_vars, config_vars, tree_vars, split_vars, tool_vars>>

InterleaveNext == AssignPosition

SpecInterleave == InterleaveInit /\ [][InterleaveNext]_vars

(***************************************************************************)
(* A root blend whose sub-nodes are leaves or blends of leaves.            *)
(***************************************************************************)
\* A validated default-mode blend of n sub-nodes with equal weights.
EvenBlend(n) ==
    validate(BlendedDatasetConfig([j \in 1..n |-> j], [j \in 1..n |-> RatOfInt(1)], FALSE)).self

\* dataset.build_and_sample(data) on the sub-node of the given shape: a leaf
\* is sampled with data itself, a nested blend resolves each of its leaves
\* with the context it derives from data.
leaf_contexts(shape, data) ==
    IF shape = 0
    THEN <<data>>
    ELSE [j \in 1..shape |-> branch_sampling(EvenBlend(shape), data, j - 1)]

TreeShapes ==
    UNION {[1..k -> {0} \cup 2..TreeBranches] : k \in 2..TreeBranches}

\* A validated root blend over a tree of the given shape.
TreeInit ==
    /\ world_size = 1
    /\ contexts = <<>>
    /\ iterators = <<>>
    /\ rank_calls = <<>>
    /\ callers = {}
    /\ tree \in TreeShapes
    /\ node = EvenBlend(Len(tree))
    /\ given = BlendedDatasetConfig([j \in 1..Len(tree) |-> j],
                                    [j \in 1..Len(tree) |-> RatOfInt(1)], FALSE)
    /\ status = "validated"
    /\ built = NoDataset
    /\ wrapped_builds = 0
    /\ passed = NoSampling
    /\ sampling = NoSampling
    /\ requests = <<>>
    /\ blended = NoBlended
    /\ resolved = <<>>
    /\ position = 0
    /\ drawn = <<>>
    /\ leaves = <<>>
    /\ corpus = 0
    /\ split_configs = <<>>
    /\ splits = <<>>
    /\ interrupter = NoInterrupter
    /\ handlers = ProcessDefaults
    /\ handled = <<>>
    /\ push_pc = "idle"
    /\ export_dirs = {}
    /\ committed_iter_numbers = {}
    /\ new_checkpoint_paths = <<>>
    /\ loop_index = 0
    /\ commit_info = 0
    /\ futures = NoFutures
    /\ tmp_checkpoint_dir = NoDirectory
    /\ relinked = <<>>

\* build_and_sample(data) on the root: every sub-node is resolved with its
\* branch context, nested blends resolving their own leaves in turn.
ResolveTree(data) ==
    /\ status = "validated"
    /\ tree # <<>>
    /\ passed' = data
    /\ sampling' = sampling_after(node, data, Len(node.datasets))
    /\ requests' = [j \in 1..Len(node.datasets) |-> branch_sampling(node, data, j - 1)]
    /\ resolved' = resolution_order(node, Len(node.datasets))
    /\ leaves' = [j \in 1..Len(node.datasets) |->
                    leaf_contexts(tree[j], branch_sampling(node, data, j - 1))]
    /\ blended' = BlendedDataset(node.name,
                    [j \in 1..Len(node.datasets) |->
                        branch_sampling(node, data, j - 1).parameters.num_samples],
                    node.weights, blended_sampling(node, data))
    /\ status' = "sampled"
    /\ UNCHANGED <<node, given, built, wrapped_builds, tree, rank_vars, blend_vars,
                 split_vars, tool_vars>>

TreeNext ==
    \E s \in Seeds, n \in 1..MaxSamples : ResolveTree(SamplingData(s, n, "dataset"))

SpecTree == TreeInit /\ [][TreeNext]_vars

(***************************************************************************)
(* Two adjacent slices of one indexed dataset.                             *)
(***************************************************************************)
UnitFractions == {f \in Fractions : RatLeq(RatOfInt(0), f) /\ RatLeq(f, RatOfInt(1))}

\* Slice configs (a, b) and (b, c) with 0 <= a <= b <= c <= 1 over one
\* dataset of `corpus` elements, both validated, none built yet.
SplitInit ==
    /\ world_size = 1
    /\ contexts = <<>>
    /\ iterators = <<>>
    /\ rank_calls = <<>>
    /\ callers = {}
    /\ corpus \in 0..MaxLen
    /\ \E a, b, c \in UnitFractions :
        /\ RatLeq(a, b)
        /\ RatLeq(b, c)
        /\ split_configs = <<validate(DatasetSliceConfig(a, b)).self,
                             validate(DatasetSliceConfig(b, c)).self>>
    /\ node = split_configs[1]
    /\ given = split_configs[1]
    /\ status = "validated"
    /\ built = NoDataset
    /\ wrapped_builds = 0
    /\ passed = NoSampling
    /\ sampling = NoSampling
    /\ requests = <<>>
    /\ blended = NoBlended
    /\ resolved = <<>>
    /\ position = 0
    /\ drawn = <<>>
    /\ tree = <<>>
    /\ leaves = <<>>
    /\ splits = <<>>
    /\ interrupter = NoInterrupter
    /\ handlers = ProcessDefaults
    /\ handled = <<>>
    /\ push_pc = "idle"
    /\ export_dirs = {}
    /\ committed_iter_numbers = {}
    /\ new_checkpoint_paths = <<>>
    /\ loop_index = 0
    /\ commit_info = 0
    /\ futures = NoFutures
    /\ tmp_checkpoint_dir = NoDirectory
    /\ relinked = <<>>

\* build() on the next slice config of the split.
BuildSplit ==
    /\ Len(splits) < Len(split_configs)
    /\ splits' = Append(splits,
                    DatasetSliceConfig_build(split_configs[Len(splits) + 1], corpus))
    /\ UNCHANGED <<corpus, split_configs, rank_vars, config_vars, blend_vars, tree_vars,
                   tool_vars>>

SplitNext == BuildSplit

SpecSplit == SplitInit /\ [][SplitNext]_vars

(***************************************************************************)
(* A blended config validated, and validated again.                        *)
(***************************************************************************)
FloatInit ==
    /\ world_size = 1
    /\ contexts = <<>>
    /\ iterators = <<>>
    /\ rank_calls = <<>>
    /\ callers = {}
    /\ \E ws \in FloatWeightLists :
        given = BlendedDatasetConfig([j \in 1..Len(ws) |-> j], ws, FALSE)
    /\ node = given
    /\ status = "constructed"
    /\ built = NoDataset
    /\ wrapped_builds = 0
    /\ passed = NoSampling
    /\ sampling = NoSampling
    /\ requests = <<>>
    /\ blended = NoBlended
    /\ resolved = <<>>
    /\ position = 0
    /\ drawn = <<>>
    /\ tree = <<>>
    /\ leaves = <<>>
    /\ corpus = 0
    /\ split_configs = <<>>
    /\ splits = <<>>
    /\ interrupter = NoInterrupter
    /\ handlers = ProcessDefaults
    /\ handled = <<>>
    /\ push_pc = "idle"
    /\ export_dirs = {}
    /\ committed_iter_numbers = {}
    /\ new_checkpoint_paths = <<>>
    /\ loop_index = 0
    /\ commit_info = 0
    /\ futures = NoFutures
    /\ tmp_checkpoint_dir = NoDirectory
    /\ relinked = <<>>

\* _validate() on a config that has not been validated.
ValidateFloat ==
    /\ status = "constructed"
    /\ LET r == BlendedDatasetConfig_validate_float(node)
       IN  /\ node' = r.self
           /\ status' = IF r.ok THEN "validated" ELSE "error"
    /\ UNCHANGED <<given, built, wrapped_builds, passed, sampling, requests, blended,
                   resolved, rank_vars, blend_vars, tree_vars, split_vars, tool_vars>>

\* _validate() on a config that has been validated once.
Revalidate ==
    /\ status = "validated"
    /\ LET r == BlendedDatasetConfig_validate_float(node)
       IN  /\ node' = r.self
           /\ status' = IF r.ok THEN "revalidated" ELSE "error"
    /\ UNCHANGED <<given, built, wrapped_builds, passed, sampling, requests, blended,
                   resolved, rank_vars, blend_vars, tree_vars, split_vars, tool_vars>>

FloatNext ==
    \/ ValidateFloat
    \/ Revalidate

SpecFloat == FloatInit /\ [][FloatNext]_vars

(***************************************************************************)
(* An Interrupter used as a context manager while signals arrive.          *)
(***************************************************************************)
SignalLists == UNION {[1..k -> Signums] : k \in 0..2}

InterruptInit ==
    /\ world_size = 1
    /\ contexts = <<>>
    /\ iterators = <<>>
    /\ rank_calls = <<>>
    /\ callers = {}
    /\ node = ConcatenatedDatasetConfig(<<>>)
    /\ given = ConcatenatedDatasetConfig(<<>>)
    /\ status = "idle"
    /\ built = NoDataset
    /\ wrapped_builds = 0
    /\ passed = NoSampling
    /\ sampling = NoSampling
    /\ requests = <<>>
    /\ blended = NoBlended
    /\ resolved = <<>>
    /\ position = 0
    /\ drawn = <<>>
    /\ tree = <<>>
    /\ leaves = <<>>
    /\ corpus = 0
    /\ split_configs = <<>>
    /\ splits = <<>>
    /\ \E enabled \in BOOLEAN, signals \in SignalLists :
        interrupter = Interrupter(enabled, signals)
    /\ handlers \in [Signums -> Dispositions]
    /\ handled = <<>>
    /\ push_pc = "idle"
    /\ export_dirs = {}
    /\ committed_iter_numbers = {}
    /\ new_checkpoint_paths = <<>>
    /\ loop_index = 0
    /\ commit_info = 0
    /\ futures = NoFutures
    /\ tmp_checkpoint_dir = NoDirectory
    /\ relinked = <<>>

\* Interrupter.__enter__
Enter ==
    /\ ~interrupter.entered
    /\ LET r == IF interrupter.enabled
                THEN enter_signals(interrupter.signals, Len(interrupter.signals),
                                   handlers, NoOldSignals)
                ELSE [installed |-> handlers, old |-> NoOldSignals]
       IN  /\ handlers' = r.installed
           /\ interrupter' = [interrupter EXCEPT !.interrupted = "False",
                                                 !.old_signals = r.old,
                                                 !.entered = TRUE,
                                                 !.handlers_at_entry = handlers]
    /\ handled' = <<>>
    /\ UNCHANGED <<rank_vars, config_vars, blend_vars, tree_vars, split_vars, push_vars>>

\* Interrupter.__exit__: every handler kept in _old_signals is installed
\* again.
Exit ==
    /\ interrupter.entered
    /\ handlers' = [s \in Signums |->
                        IF interrupter.old_signals[s] # "none"
                        THEN interrupter.old_signals[s]
                        ELSE handlers[s]]
    /\ interrupter' = [interrupter EXCEPT !.entered = FALSE]
    /\ UNCHANGED <<handled, rank_vars, config_vars, blend_vars, tree_vars, split_vars,
                   push_vars>>

\* The process receives signal signum.  When _handle_signal is installed
\* for it, it runs; any other handler or disposition is not the
\* Interrupter's business.
Signal(signum) ==
    /\ Len(handled) < MaxSignals
    /\ IF handlers[signum] = "_handle_signal"
       THEN IF interrupter.interrupted = "True"
            THEN /\ handled' = Append(handled,
                        [signum |-> signum,
                         did |-> repeated_signal(interrupter.old_signals[signum]),
                         handler |-> interrupter.old_signals[signum]])
                 /\ UNCHANGED interrupter
            ELSE /\ handled' = Append(handled,
                        [signum |-> signum, did |-> "set_interrupted", handler |-> "none"])
                 /\ interrupter' = [interrupter EXCEPT !.interrupted = "True"]
       ELSE UNCHANGED <<interrupter, handled>>
    /\ UNCHANGED <<handlers, rank_vars, config_vars, blend_vars, tree_vars, split_vars,
                   push_vars>>

InterruptNext ==
    \/ Enter
    \/ Exit
    \/ \E signum \in Signums : Signal(signum)

SpecInterrupt == InterruptInit /\ [][InterruptNext]_vars

(***************************************************************************)
(* PushConfig.run: the main thread and the single worker of the executor.  *)
(***************************************************************************)
PushInit ==
    /\ world_size = 1
    /\ contexts = <<>>
    /\ iterators = <<>>
    /\ rank_calls = <<>>
    /\ callers = {}
    /\ node = ConcatenatedDatasetConfig(<<>>)
    /\ given = ConcatenatedDatasetConfig(<<>>)
    /\ status = "idle"
    /\ built = NoDataset
    /\ wrapped_builds = 0
    /\ passed = NoSampling
    /\ sampling = NoSampling
    /\ requests = <<>>
    /\ blended = NoBlended
    /\ resolved = <<>>
    /\ position = 0
    /\ drawn = <<>>
    /\ tree = <<>>
    /\ leaves = <<>>
    /\ corpus = 0
    /\ split_configs = <<>>
    /\ splits = <<>>
    /\ interrupter = NoInterrupter
    /\ handlers = ProcessDefaults
    /\ handled = <<>>
    /\ push_pc = "start"
    /\ export_dirs \in SUBSET Iterations
    /\ committed_iter_numbers \in SUBSET Iterations
    /\ new_checkpoint_paths = <<>>
    /\ loop_index = 0
    /\ commit_info = 0
    /\ futures = NoFutures
    /\ tmp_checkpoint_dir = NoDirectory
    /\ relinked = <<>>

\* run() up to the loop: the repo is cloned into the temporary directory,
\* the new checkpoints are listed and sorted, the tokenizer is copied.
ListCheckpoints ==
    /\ push_pc = "start"
    /\ new_checkpoint_paths' = sorted(export_dirs \ committed_iter_numbers)
    /\ tmp_checkpoint_dir' = [exists |-> TRUE, content |-> 0, rewriting |-> FALSE]
    /\ loop_index' = 1
    /\ push_pc' = IF export_dirs \ committed_iter_numbers = {} THEN "shutdown" ELSE "convert"
    /\ UNCHANGED <<export_dirs, committed_iter_numbers, commit_info, futures, relinked,
                   rank_vars, config_vars, blend_vars, tree_vars, split_vars, int_vars>>

\* ConvertConfig(...).run(...): blocks until the conversion is done, or
\* raises.
Convert(ok) ==
    /\ push_pc = "convert"
    /\ push_pc' = IF ok THEN "wait" ELSE "shutdown_raising"
    /\ UNCHANGED <<export_dirs, committed_iter_numbers, new_checkpoint_paths, loop_index,
                   commit_info, futures, tmp_checkpoint_dir, relinked,
                   rank_vars, config_vars, blend_vars, tree_vars, split_vars, int_vars>>

\* if commit_info is not None: commit_info.result() -- returns when the
\* previous upload is done, raises what the upload raised.
WaitPrevious ==
    /\ push_pc = "wait"
    /\ commit_result_returns(commit_info, futures)
    /\ push_pc' = IF commit_info = 0 THEN "link"
                  ELSE IF futures[commit_info] = "failed" THEN "shutdown_raising"
                  ELSE "link"
    /\ UNCHANGED <<export_dirs, committed_iter_numbers, new_checkpoint_paths, loop_index,
                   commit_info, futures, tmp_checkpoint_dir, relinked,
                   rank_vars, config_vars, blend_vars, tree_vars, split_vars, int_vars>>

\* The first file of the temporary directory is unlinked and linked anew.
LinkBegin ==
    /\ push_pc = "link"
    /\ tmp_checkpoint_dir' = [tmp_checkpoint_dir EXCEPT !.rewriting = TRUE]
    /\ push_pc' = "linking"
    /\ UNCHANGED <<export_dirs, committed_iter_numbers, new_checkpoint_paths, loop_index,
                   commit_info, futures, relinked,
                   rank_vars, config_vars, blend_vars, tree_vars, split_vars, int_vars>>

\* The last file is linked and the metadata copied: the directory holds the
\* checkpoint in progress.
LinkEnd ==
    /\ push_pc = "linking"
    /\ tmp_checkpoint_dir' =
            [tmp_checkpoint_dir EXCEPT !.rewriting = FALSE,
                                       !.content = new_checkpoint_paths[loop_index]]
    /\ relinked' = Append(relinked, new_checkpoint_paths[loop_index])
    /\ push_pc' = "upload"
    /\ UNCHANGED <<export_dirs, committed_iter_numbers, new_checkpoint_paths, loop_index,
                   commit_info, futures,
                   rank_vars, config_vars, blend_vars, tree_vars, split_vars, int_vars>>

\* commit_info = hf_api.upload_folder(..., run_as_future=True): the upload
\* is submitted to the executor, and the loop goes on or ends.
UploadFolder ==
    /\ push_pc = "upload"
    /\ futures' = [futures EXCEPT ![new_checkpoint_paths[loop_index]] = "queued"]
    /\ commit_info' = new_checkpoint_paths[loop_index]
    /\ loop_index' = loop_index + 1
    /\ push_pc' = IF loop_index < Len(new_checkpoint_paths) THEN "convert" ELSE "shutdown"
    /\ UNCHANGED <<export_dirs, committed_iter_numbers, new_checkpoint_paths,
                   tmp_checkpoint_dir, relinked,
                   rank_vars, config_vars, blend_vars, tree_vars, split_vars, int_vars>>

\* Leaving the `with` block, normally or with an exception: the executor
\* shuts down once its pending work is done.
Shutdown ==
    /\ push_pc \in {"shutdown", "shutdown_raising"}
    /\ InFlight(futures) = {}
    /\ push_pc' = IF push_pc = "shutdown" THEN "remove" ELSE "raised"
    /\ UNCHANGED <<export_dirs, committed_iter_numbers, new_checkpoint_paths, loop_index,
                   commit_info, futures, tmp_checkpoint_dir, relinked,
                   rank_vars, config_vars, blend_vars, tree_vars, split_vars, int_vars>>

\* shutil.rmtree(self.tmp_checkpoint_dir)
RemoveDirectory ==
    /\ push_pc = "remove"
    /\ tmp_checkpoint_dir' = [tmp_checkpoint_dir EXCEPT !.exists = FALSE]
    /\ push_pc' = "done"
    /\ UNCHANGED <<export_dirs, committed_iter_numbers, new_checkpoint_paths, loop_index,
                   commit_info, futures, relinked,
                   rank_vars, config_vars, blend_vars, tree_vars, split_vars, int_vars>>

\* The worker thread of ThreadPoolExecutor(max_workers=1) takes a submitted
\* upload when it runs none.
UploadStart(i) ==
    /\ futures[i] = "queued"
    /\ \A j \in Iterations : futures[j] # "running"
    /\ futures' = [futures EXCEPT ![i] = "running"]
    /\ UNCHANGED <<push_pc, export_dirs, committed_iter_numbers, new_checkpoint_paths,
                   loop_index, commit_info, tmp_checkpoint_dir, relinked,
                   rank_vars, config_vars, blend_vars, tree_vars, split_vars, int_vars>>

\* The upload returns or raises.
UploadFinish(i, ok) ==
    /\ futures[i] = "running"
    /\ futures' = [futures EXCEPT ![i] = IF ok THEN "done" ELSE "failed"]
    /\ UNCHANGED <<push_pc, export_dirs, committed_iter_numbers, new_checkpoint_paths,
                   loop_index, commit_info, tmp_checkpoint_dir, relinked,
                   rank_vars, config_vars, blend_vars, tree_vars, split_vars, int_vars>>

PushNext ==
    \/ ListCheckpoints
    \/ \E ok \in BOOLEAN : Convert(ok)
    \/ WaitPrevious
    \/ LinkBegin
    \/ LinkEnd
    \/ UploadFolder
    \/ Shutdown
    \/ RemoveDirectory
    \/ \E i \in Iterations : UploadStart(i)
    \/ \E i \in Iterations, ok \in BOOLEAN : UploadFinish(i, ok)

SpecPush == PushInit /\ [][PushNext]_vars

(***************************************************************************)
(* Resolution pass over SamplingData objects: copies are derived and the   *)
(* dataset providers ask for the next rank.                                *)
(***************************************************************************)
RankInit ==
    /\ world_size \in 1..MaxWorld
    /\ \E s \in Seeds : contexts = <<SamplingData(s, MaxSamples, "dataset")>>
    /\ iterators = <<>>
    /\ rank_calls = <<>>
    /\ callers = {}
    /\ node = ConcatenatedDatasetConfig(<<>>)
    /\ given = node
    /\ status = "idle"
    /\ built = NoDataset
    /\ wrapped_builds = 0
    /\ passed = NoSampling
    /\ sampling = NoSampling
    /\ requests = <<>>
    /\ blended = NoBlended
    /\ resolved = <<>>
    /\ position = 0
    /\ tree = <<>>
    /\ leaves = <<>>
    /\ corpus = 0
    /\ split_configs = <<>>
    /\ splits = <<>>
    /\ interrupter = NoInterrupter
    /\ handlers = ProcessDefaults
    /\ handled = <<>>
    /\ push_pc = "idle"
    /\ export_dirs = {}
    /\ committed_iter_numbers = {}
    /\ new_checkpoint_paths = <<>>
    /\ loop_index = 0
    /\ commit_info = 0
    /\ futures = NoFutures
    /\ tmp_checkpoint_dir = NoDirectory
    /\ relinked = <<>>
    /\ drawn = <<>>

\* SampledDatasetUpdateConfig.build_and_sample derives a copy with update_config.
UpdateConfig(c, seed, explicit) ==
    /\ Len(contexts) < MaxContexts
    /\ contexts' = Append(contexts,
            update_config(contexts[c], SamplingConfig(seed, explicit)))
    /\ UNCHANGED <<world_size, iterators, rank_calls, callers, config_vars, blend_vars, tree_vars,
                 split_vars, tool_vars>>

\* BlendedDatasetConfig.build_and_sample derives a copy with dataclasses.replace.
Replace(c, seed, num_samples) ==
    /\ Len(contexts) < MaxContexts
    /\ contexts' = Append(contexts,
            dataclasses_replace(contexts[c],
                [parameters |-> [num_samples |-> num_samples],
                 config |-> [seed |-> seed]]))
    /\ UNCHANGED <<world_size, iterators, rank_calls, callers, config_vars, blend_vars, tree_vars,
                 split_vars, tool_vars>>

\* A dataset provider calls get_next_rank on the context it was given.
GetNextRank(c) ==
    /\ Len(rank_calls) < MaxCalls
    /\ LET r == get_next_rank(contexts[c], iterators, world_size)
       IN  /\ iterators' = r.heap
           /\ rank_calls' = Append(rank_calls, r.rank)
    /\ callers' = callers \cup {c}
    /\ UNCHANGED <<world_size, contexts, config_vars, blend_vars, tree_vars,
                 split_vars, tool_vars>>

RankNext ==
    \/ \E c \in 1..Len(contexts), s \in Seeds, e \in BOOLEAN : UpdateConfig(c, s, e)
    \/ \E c \in 1..Len(contexts), s \in Seeds, n \in {1, MaxSamples} : Replace(c, s, n)
    \/ \E c \in 1..Len(contexts) : GetNextRank(c)

SpecRank == RankInit /\ [][RankNext]_vars

(***************************************************************************)
(* Properties: rank rotation                                               *)
(***************************************************************************)
\* The k-th call returned (k-1) mod world_size.
InRotation(k) == rank_calls[k] = (k - 1) % world_size

\* C1: on one SamplingData context the k-th successive get_next_rank() call
\* returns (k-1) mod world_size (world_size 4: 0,1,2,3,0,1,2,3).
C1_RotationOnOneContext ==
    Cardinality(callers) <= 1 => \A k \in 1..Len(rank_calls) : InRotation(k)

\* C2: the counter is one sequence shared by a context and its copies: when
\* calls are made on several of them, the k-th call overall still returns
\* (k-1) mod world_size.
C2_RotationSharedByCopies ==
    Cardinality(callers) >= 2 => \A k \in 1..Len(rank_calls) : InRotation(k)

(***************************************************************************)
(* Properties: validation                                                  *)
(***************************************************************************)
Constructed == status = "constructed"
Rejected == status = "error"
Accepted == status \in {"validated", "built", "sampled", "failed"}

\* C3: a slice config whose begin is not strictly less than end is rejected
\* at construction, before build() is called on the wrapped dataset.
C3_SliceEmptyRangeRejected ==
    (node.kind = "slice" /\ ~RatLt(given.begin, given.end) /\ ~Constructed)
        => (Rejected /\ wrapped_builds = 0)

\* C4: a slice config with begin < 0 or end > 1 is rejected at construction,
\* so every slice config that reaches build() has 0 <= begin < end <= 1.
C4_SliceRangeWithinUnit ==
    (node.kind = "slice" /\ Accepted)
        => /\ RatLeq(RatOfInt(0), node.begin)
           /\ RatLt(node.begin, node.end)
           /\ RatLeq(node.end, RatOfInt(1))

\* C5: validation of a blended config fails whenever it has fewer than 2
\* datasets or the numbers of datasets and weights differ; every blended
\* config that passes has len(datasets) = len(weights) >= 2.
C5_BlendedLengths ==
    node.kind = "blended" =>
        /\ (~Constructed /\ (Len(given.datasets) < 2
                             \/ Len(given.datasets) # Len(given.weights)))
                => Rejected
        /\ Accepted => (Len(node.datasets) = Len(node.weights)
                        /\ Len(node.datasets) >= 2)

\* C5 witness: one dataset with two equal positive weights was rejected.
C5_Witness ==
    /\ node.kind = "blended"
    /\ Rejected
    /\ Len(given.datasets) = 1
    /\ given.weights = <<RatOfInt(MaxWeight), RatOfInt(MaxWeight)>>

\* Some raw weight is negative.
SomeNegative(ws) == \E i \in 1..Len(ws) : ws[i][1] < 0

\* The sum of the raw weights (integers) is at most 0.
RECURSIVE IntSum(_)
IntSum(ws) == IF ws = <<>> THEN 0 ELSE Head(ws)[1] + IntSum(Tail(ws))

\* C6: validation of a blended config fails if a raw weight is negative or
\* the raw weights sum to <= 0 (all-zero and empty lists included), and then
\* the weights are left as given (no normalized weights are produced).
C6_BadWeightsRejected ==
    (node.kind = "blended" /\ ~Constructed
        /\ (SomeNegative(given.weights) \/ IntSum(given.weights) <= 0))
        => (Rejected /\ node.weights = given.weights)

\* C6 witness: a negative weight in a list with positive sum and matching
\* lengths was rejected.
C6_Witness ==
    /\ node.kind = "blended"
    /\ Rejected
    /\ Len(given.datasets) = 2
    /\ given.weights = <<RatOfInt(-1), RatOfInt(MaxWeight)>>

\* C7 as stated: after validation every stored weight is strictly positive,
\* the weights sum to 1 and there are at least 2 branches.
C7_WeightsStrictlyPositive ==
    (node.kind = "blended" /\ Accepted)
        => /\ \A i \in 1..Len(node.weights) : node.weights[i][1] > 0
           /\ RatSum(node.weights) = RatOfInt(1)
           /\ Len(node.weights) >= 2

\* C7 amended: after validation every stored weight is non-negative (a
\* branch may have weight 0), at least one is positive, the weights sum to 1
\* and there are at least 2 branches.
C7_WeightsNonNegative ==
    (node.kind = "blended" /\ Accepted)
        => /\ \A i \in 1..Len(node.weights) :
                node.weights[i][1] >= 0 /\ node.weights[i][2] > 0
           /\ \E i \in 1..Len(node.weights) : node.weights[i][1] > 0
           /\ RatSum(node.weights) = RatOfInt(1)
           /\ Len(node.weights) >= 2

\* C7 witness: a validated blend with a branch of weight 0.
C7_Witness ==
    /\ node.kind = "blended"
    /\ Accepted
    /\ \E i \in 1..Len(node.weights) : node.weights[i] = RatOfInt(0)

\* C8: validation of a concatenated config with an empty datasets list
\* fails; every concatenated config that reaches build() has >= 1 sub-dataset.
C8_ConcatenatedNonEmpty ==
    node.kind = "concatenated" =>
        /\ (~Constructed /\ Len(given.datasets) = 0) => Rejected
        /\ status = "built" => (Len(node.datasets) >= 1
                                /\ Len(built.parts) = Len(node.datasets))

\* C8 witness: the empty concatenation was rejected.
C8_Witness ==
    /\ node.kind = "concatenated"
    /\ Rejected
    /\ given.datasets = <<>>

(***************************************************************************)
(* Properties: weight normalization and branch sample counts               *)
(***************************************************************************)
\* C9: for non-negative p with positive sum, normalize_probabilities(p) has
\* the length of p, sums to 1, and keeps ratios and order:
\* out[i] * p[j] = out[j] * p[i].
C9_NormalizeKeepsRatios ==
    (node.kind = "blended" /\ ~Constructed
        /\ ~SomeNegative(given.weights) /\ IntSum(given.weights) > 0)
        => LET p == given.weights
               out == node.weights
           IN  /\ Len(out) = Len(p)
               /\ RatSum(out) = RatOfInt(1)
               /\ \A i, j \in 1..Len(p) :
                    /\ out[i][1] * p[j][1] * out[j][2] * p[i][2]
                         = out[j][1] * p[i][1] * out[i][2] * p[j][2]
                    /\ RatLeq(p[i], p[j]) => RatLeq(out[i], out[j])

\* C9 witness: the list [1, MaxWeight] was normalized.
C9_Witness ==
    /\ node.kind = "blended"
    /\ ~Constructed
    /\ given.weights = <<RatOfInt(1), RatOfInt(MaxWeight)>>
    /\ node.weights = <<Rat(1, 1 + MaxWeight), Rat(MaxWeight, 1 + MaxWeight)>>

\* m = ceil(n * N / d) for d > 0: the least integer with m * d >= n * N.
IsCeilOf(m, weight, num_samples) ==
    /\ m * weight[2] >= weight[1] * num_samples
    /\ (m - 1) * weight[2] < weight[1] * num_samples

\* C10: in default mode branch i is resolved with num_samples exactly
\* ceil(w_i * N) + 1, N being the caller's parameters.num_samples.
C10_DefaultBranchSamples ==
    (node.kind = "blended" /\ status \in {"sampled", "failed"} /\ ~node.legacy)
        => \A j \in 1..Len(requests) :
                IsCeilOf(requests[j].parameters.num_samples - 1,
                         node.weights[j], sampling.parameters.num_samples)

\* C10 witness: a default-mode blend of weights 1/3 and 2/3 resolved for 4
\* samples requested 3 and 4 samples from its branches.
C10_Witness ==
    /\ node.kind = "blended"
    /\ status = "sampled"
    /\ ~node.legacy
    /\ node.weights = <<Rat(1, 3), Rat(2, 3)>>
    /\ sampling.parameters.num_samples = 4
    /\ requests[1].parameters.num_samples = 3
    /\ requests[2].parameters.num_samples = 4

(***************************************************************************)
(* Properties: blend resolution                                            *)
(***************************************************************************)
\* A blended config whose build_and_sample has run (to the end or to a
\* failing branch).
BlendResolved == node.kind = "blended" /\ status \in {"sampled", "failed"}

\* C11: branch i (0-based) is resolved with seed = caller's seed + i * 697 in
\* default mode and with the caller's seed for every branch in legacy mode.
C11_BranchSeeds ==
    BlendResolved =>
        \A j \in 1..Len(requests) :
            requests[j].config.seed
                = IF node.legacy
                  THEN sampling.config.seed
                  ELSE sampling.config.seed + (j - 1) * 697

\* C11 witness: a default-mode blend resolved three branches from seed 1
\* with seeds 1, 698, 1395.
C11_Witness ==
    /\ BlendResolved
    /\ ~node.legacy
    /\ sampling.config.seed = 1
    /\ Len(requests) = 3
    /\ requests[1].config.seed = 1
    /\ requests[2].config.seed = 698
    /\ requests[3].config.seed = 1395

\* m >= w * (N + 5 * sqrt(N * (1 - w))) for a weight w in [0, 1], in rational
\* arithmetic: t = m - w * N is non-negative and t^2 >= 25 * w^2 * N * (1 - w).
AtLeastLegacyShare(m, w, num_samples) ==
    LET t == RatSub(RatOfInt(m), RatMul(w, RatOfInt(num_samples)))
        margin_squared ==
            RatMul(RatMul(RatOfInt(25), RatMul(w, w)),
                   RatMul(RatOfInt(num_samples), RatSub(RatOfInt(1), w)))
    IN  /\ RatLeq(RatOfInt(0), t)
        /\ RatLeq(margin_squared, RatMul(t, t))

\* C12: in legacy mode branch i is resolved with num_samples exactly
\* ceil(w_i * (N + 5 * sqrt(N * (1 - w_i)))), never less than ceil(w_i * N).
C12_LegacyBranchSamples ==
    (BlendResolved /\ node.legacy) =>
        \A j \in 1..Len(requests) :
            LET m == requests[j].parameters.num_samples
                w == node.weights[j]
                N == sampling.parameters.num_samples
            IN  /\ AtLeastLegacyShare(m, w, N)
                /\ ~AtLeastLegacyShare(m - 1, w, N)
                /\ \A c \in 0..N : IsCeilOf(c, w, N) => m >= c

\* C12 witness: a legacy blend of weights 1/2, 1/2 resolved for 4 samples
\* requested ceil(0.5 * (4 + 5 * sqrt(2))) = 6 samples from its first branch.
C12_Witness ==
    /\ BlendResolved
    /\ node.legacy
    /\ node.weights = <<Rat(1, 2), Rat(1, 2)>>
    /\ sampling.parameters.num_samples = 4
    /\ requests[1].parameters.num_samples = 6

(***************************************************************************)
(* Properties: parameter override                                          *)
(***************************************************************************)
\* A SampledDatasetUpdateConfig whose build_and_sample has run.
OverrideResolved == node.kind = "update" /\ status \in {"sampled", "failed"}

\* C13: the wrapped sub-node is resolved with a context whose seed is the
\* override's seed when the override sets it explicitly and the incoming
\* context's seed when it leaves it unset.
C13_OverrideSeed ==
    OverrideResolved =>
        /\ Len(requests) = 1
        /\ requests[1].config.seed
             = IF "seed" \in node.sampling.set_fields
               THEN node.sampling.seed
               ELSE passed.config.seed

\* C13 witness: an override that leaves seed unset passed on the incoming
\* seed 1, not the field default.
C13_Witness ==
    /\ OverrideResolved
    /\ node.sampling.set_fields = {}
    /\ node.sampling.seed = default_seed
    /\ passed.config.seed = 1
    /\ requests[1].config.seed = 1

\* C14: update_config changes nothing but config: the derived context has
\* the parameters, cache directory, distributed info, dataset name and rank
\* counter of the input context, and the input context is not modified.
C14_UpdateConfigFrame ==
    OverrideResolved =>
        /\ requests[1].parameters = passed.parameters
        /\ requests[1].cache_directory = passed.cache_directory
        /\ requests[1].distributed = passed.distributed
        /\ requests[1].dataset_name = passed.dataset_name
        /\ requests[1].rank_counter = passed.rank_counter
        /\ sampling = passed

\* C14 witness: an explicit override changed the seed of the derived context
\* and left the input context with its own seed.
C14_Witness ==
    /\ OverrideResolved
    /\ node.sampling.set_fields = {"seed"}
    /\ passed.config.seed = 0
    /\ requests[1].config.seed = 1
    /\ sampling.config.seed = 0
    /\ requests[1].parameters.num_samples = passed.parameters.num_samples

Pools(N) == [j \in 1..Len(node.weights) |-> default_num_samples(node.weights[j], N)]

\* Branch j holds less than w_j * position + 1 of the positions assigned.
OverBelowOne(j) ==
    RatLt(deficit(node.weights[j], position, drawn[j]), RatOfInt(0))
        => RatLt(RatOfInt(-1), deficit(node.weights[j], position, drawn[j]))

\* Branch j holds more than w_j * position - 1 of the positions assigned.
UnderBelowOne(j) ==
    RatLt(deficit(node.weights[j], position, drawn[j]), RatOfInt(1))

\* No pool is exhausted in a blend of N >= position samples, and the pools
\* together hold at least N samples.
PoolsSuffice ==
    \A N \in position..MaxPositions :
        /\ \A j \in 1..Len(drawn) : drawn[j] <= Pools(N)[j]
        /\ SeqSum(Pools(N)) >= N

SliceBuilt == node.kind = "slice" /\ status = "built"

\* m is an integer nearest to fraction * size: 2 * |m - fraction * size| <= 1.
IsNearest(m, fraction, size) ==
    2 * Abs(m * fraction[2] - fraction[1] * size) <= fraction[2]

\* fraction * size is exactly k + 1/2 for an integer k.
IsHalfway(fraction, size) ==
    (2 * fraction[1] * size) % fraction[2] = 0
        /\ ((2 * fraction[1] * size) \div fraction[2]) % 2 = 1

\* 0 <= begin < end <= 1
InUnitRange(self) ==
    /\ RatLeq(RatOfInt(0), self.begin)
    /\ RatLt(self.begin, self.end)
    /\ RatLeq(self.end, RatOfInt(1))

\* C18: a built slice covers [lo, hi) of the wrapped dataset with lo an
\* integer nearest to begin * len and hi one nearest to end * len; its length
\* is hi - lo and its element i is element lo + i of the wrapped dataset,
\* which exists when 0 <= begin < end <= 1.  On 10 elements (0, 1/2) gives
\* length 5 from element 0 and (1/2, 1) gives length 5 from element 5.
C18_SliceBounds ==
    SliceBuilt =>
        /\ IsNearest(built.begin, node.begin, built.size)
        /\ IsNearest(built.end, node.end, built.size)
        /\ DatasetSlice_len(built) = built.end - built.begin
        /\ \A i \in 0..(DatasetSlice_len(built) - 1) :
            /\ DatasetSlice_getitem(built, i) = built.begin + i
            /\ InUnitRange(node) =>
                    (0 <= DatasetSlice_getitem(built, i)
                        /\ DatasetSlice_getitem(built, i) < built.size)
        /\ (built.size = 10 /\ node.begin = Rat(0, 1) /\ node.end = Rat(1, 2))
                => (DatasetSlice_len(built) = 5 /\ DatasetSlice_getitem(built, 0) = 0)
        /\ (built.size = 10 /\ node.begin = Rat(1, 2) /\ node.end = Rat(1, 1))
                => (DatasetSlice_len(built) = 5 /\ DatasetSlice_getitem(built, 0) = 5)

\* C18 witness: the second half of a 10-element dataset has been built.
C18_Witness ==
    /\ SliceBuilt
    /\ built.size = 10
    /\ node.begin = Rat(1, 2)
    /\ node.end = Rat(1, 1)
    /\ DatasetSlice_getitem(built, 0) = 5

\* The boundary m of fraction * size is rounded half-to-even: the even
\* neighbour when fraction * size is k + 1/2, the strictly nearest integer
\* otherwise.
HalfToEven(m, fraction, size) ==
    IF IsHalfway(fraction, size)
    THEN m % 2 = 0 /\ IsNearest(m, fraction, size)
    ELSE 2 * Abs(m * fraction[2] - fraction[1] * size) < fraction[2]

\* C19: both boundaries of a built slice are rounded half-to-even (5 elements
\* at fraction 1/2 give 2, 3 elements at fraction 1/2 give 2).
C19_HalfToEven ==
    SliceBuilt =>
        /\ HalfToEven(built.begin, node.begin, built.size)
        /\ HalfToEven(built.end, node.end, built.size)
        /\ (built.size \in {3, 5} /\ node.begin = Rat(1, 2)) => built.begin = 2

\* C19 witness: 5 elements sliced from 1/2 (2.5, rounded down to 2) to
\* 7/10 (3.5, rounded up to 4).
C19_Witness ==
    /\ SliceBuilt
    /\ built.size = 5
    /\ node.begin = Rat(1, 2)
    /\ node.end = Rat(7, 10)
    /\ built.begin = 2
    /\ built.end = 4

(***************************************************************************)
(* Properties: concatenation                                               *)
(***************************************************************************)
ConcatenatedBuilt == node.kind = "concatenated" /\ status = "built"

\* Global index i lies in exactly one dataset, and concatenated[i] is that
\* dataset with the index counted from its offset.
MapsToOnePair(i) ==
    LET O == built.offsets
        found == ConcatenatedDataset_getitem(built, i)
    IN  /\ Cardinality({j \in 1..Len(built.parts) : O[j] <= i /\ i < O[j + 1]}) = 1
        /\ found[1] \in 0..(Len(built.parts) - 1)
        /\ 0 <= found[2]
        /\ found[2] < built.parts[found[1] + 1].size
        /\ O[found[1] + 1] + found[2] = i

\* C20: a built concatenation holds what its datasets build, in list order;
\* its offsets start at 0, each adds the length of the dataset before it, and
\* the last is the total length; every index below the total maps to exactly
\* one (dataset, local index) pair.  Lengths 10, 20, 5: index 29 is
\* (1, 19) and index 30 is (2, 0).
C20_ConcatenationOffsets ==
    ConcatenatedBuilt =>
        LET O == built.offsets
            n == Len(built.parts)
        IN  /\ n = Len(node.datasets)
            /\ Len(O) = n + 1
            /\ \A j \in 1..n : built.parts[j].dataset = node.datasets[j]
            /\ O[1] = 0
            /\ \A j \in 2..(n + 1) : O[j] = O[j - 1] + built.parts[j - 1].size
            /\ ConcatenatedDataset_len(built) = O[n + 1]
            /\ ConcatenatedDataset_len(built)
                    = SeqSum([j \in 1..n |-> built.parts[j].size])
            /\ \A i \in 0..(ConcatenatedDataset_len(built) - 1) : MapsToOnePair(i)
            /\ [j \in 1..n |-> built.parts[j].size] = <<10, 20, 5>>
                    => /\ O = <<0, 10, 30, 35>>
                       /\ ConcatenatedDataset_getitem(built, 29) = <<1, 19>>
                       /\ ConcatenatedDataset_getitem(built, 30) = <<2, 0>>

\* C20 witness: datasets of lengths 10, 20 and 5 have been concatenated and
\* index 30 is the first element of the third.
C20_Witness ==
    /\ ConcatenatedBuilt
    /\ Len(built.parts) = 3
    /\ built.parts[1].size = 10
    /\ built.parts[2].size = 20
    /\ built.parts[3].size = 5
    /\ ConcatenatedDataset_getitem(built, 30) = <<2, 0>>

(***************************************************************************)
(* Properties: blend resolution leaves its inputs alone                    *)
(***************************************************************************)
\* C21: after build_and_sample of a blend (any number of branches, legacy or
\* not, completed or failed) the caller's context is the one passed in, with
\* its num_samples and seed, the config still has the datasets it was given
\* and the weights validation left it with, and every branch got a context
\* of its own that shares all other fields with the caller's.
C21_BlendInputsUnchanged ==
    BlendResolved =>
        /\ sampling = passed
        /\ sampling.parameters.num_samples = passed.parameters.num_samples
        /\ sampling.config.seed = passed.config.seed
        /\ node.datasets = given.datasets
        /\ node.weights = normalize_probabilities(given.weights)
        /\ \A j \in 1..Len(requests) :
            /\ requests[j].cache_directory = passed.cache_directory
            /\ requests[j].distributed = passed.distributed
            /\ requests[j].dataset_name = passed.dataset_name
            /\ requests[j].rank_counter = passed.rank_counter

\* C21 witness: a default-mode blend of three branches resolved for 4
\* samples from seed 1 handed its last branch another seed and another
\* count, and the caller still holds 4 samples and seed 1.
C21_Witness ==
    /\ BlendResolved
    /\ status = "sampled"
    /\ ~node.legacy
    /\ Len(requests) = 3
    /\ passed.parameters.num_samples = 4
    /\ passed.config.seed = 1
    /\ requests[3].config.seed = 1 + 2 * seed_stride
    /\ requests[3].parameters.num_samples # 4
    /\ sampling.parameters.num_samples = 4
    /\ sampling.config.seed = 1

(***************************************************************************)
(* Properties: order of blend resolution                                   *)
(***************************************************************************)
\* C22: a blend resolves its sub-nodes in list order, each once, one context
\* per call; the blended stream exists only when every sub-node has been
\* resolved, and when a branch fails the later ones are not resolved and no
\* stream is made.
C22_BranchesInListOrder ==
    BlendResolved =>
        /\ Len(resolved) <= Len(node.datasets)
        /\ Len(resolved) = Len(requests)
        /\ \A j \in 1..Len(resolved) : resolved[j] = node.datasets[j]
        /\ \A j, k \in 1..Len(resolved) : j # k => resolved[j] # resolved[k]
        /\ blended.kind = "blended" =>
                /\ resolved = node.datasets
                /\ Len(blended.datasets) = Len(node.datasets)
        /\ status = "sampled" => (resolved = node.datasets /\ blended.kind = "blended")
        /\ status = "failed" => (Len(resolved) >= 1 /\ blended = NoBlended)

\* C22 witness: of three branches the second failed; the first two were
\* resolved in order, the third was not, and there is no stream.
C22_Witness ==
    /\ BlendResolved
    /\ status = "failed"
    /\ node.datasets = <<1, 2, 3>>
    /\ resolved = <<1, 2>>
    /\ blended = NoBlended

(***************************************************************************)
(* Properties: seeds across nested blends                                  *)
(***************************************************************************)
\* The leaves of a resolved tree, as <<sub-node of the root, leaf of it>>.
LeafPaths ==
    {p \in (1..TreeBranches) \X (1..TreeBranches) :
        p[1] <= Len(leaves) /\ p[2] <= Len(leaves[p[1]])}

\* C23: in a resolved tree of nested default-mode blends any two distinct
\* leaves were resolved with distinct seeds.
C23_TreeSeedsDistinct ==
    (tree # <<>> /\ status = "sampled") =>
        \A p, q \in LeafPaths :
            p # q => leaves[p[1]][p[2]].config.seed # leaves[q[1]][q[2]].config.seed

(***************************************************************************)
(* Properties: adjacent slices                                             *)
(***************************************************************************)
\* The elements of the wrapped dataset a built slice gives access to.
SliceElements(slice) ==
    {DatasetSlice_getitem(slice, i) : i \in 0..(DatasetSlice_len(slice) - 1)}

\* C24: slices (a, b) and (b, c) of one dataset meet: the first ends at the
\* index where the second begins, they share no element and together hold
\* the elements from the begin of the first to the end of the second, each
\* once; from a = 0 to c = 1 these are all elements of the dataset.
C24_AdjacentSlicesPartition ==
    Len(splits) = 2 =>
        /\ splits[1].end = splits[2].begin
        /\ SliceElements(splits[1]) \cap SliceElements(splits[2]) = {}
        /\ SliceElements(splits[1]) \cup SliceElements(splits[2])
                = splits[1].begin..(splits[2].end - 1)
        /\ DatasetSlice_len(splits[1]) + DatasetSlice_len(splits[2])
                = splits[2].end - splits[1].begin
        /\ (split_configs[1].begin = RatOfInt(0) /\ split_configs[2].end = RatOfInt(1))
                => /\ SliceElements(splits[1]) \cup SliceElements(splits[2])
                        = 0..(corpus - 1)
                   /\ DatasetSlice_len(splits[1]) + DatasetSlice_len(splits[2]) = corpus

\* C24 witness: 10 elements split at 9/10 into elements 0..8 and element 9.
C24_Witness ==
    /\ Len(splits) = 2
    /\ corpus = 10
    /\ split_configs[1].begin = Rat(0, 1)
    /\ split_configs[1].end = Rat(9, 10)
    /\ split_configs[2].end = Rat(1, 1)
    /\ SliceElements(splits[1]) = 0..8
    /\ SliceElements(splits[2]) = {9}

\* C25: for a slice config with 0 <= begin < end <= 1 built over a dataset
\* of any length L, 0 <= lo <= hi <= L: the slice has between 0 and L
\* elements and each of its indices is an index of the dataset.
C25_SliceBoundsInRange ==
    (SliceBuilt /\ InUnitRange(node)) =>
        /\ 0 <= built.begin
        /\ built.begin <= built.end
        /\ built.end <= built.size
        /\ DatasetSlice_len(built) \in 0..built.size
        /\ SliceElements(built) \subseteq 0..(built.size - 1)
        /\ Cardinality(SliceElements(built)) = DatasetSlice_len(built)

\* C25 witness: the upper half of 3 elements is the single element 2, the
\* last of the dataset.
C25_Witness ==
    /\ SliceBuilt
    /\ InUnitRange(node)
    /\ built.size = 3
    /\ node.begin = Rat(1, 2)
    /\ node.end = Rat(1, 1)
    /\ built.begin = 2
    /\ built.end = 3
    /\ SliceElements(built) = {2}

(***************************************************************************)
(* Properties: repeated validation                                         *)
(***************************************************************************)
\* C26: a blended config validated a second time has the weights the first
\* validation gave it, and so the same default-mode branch sample counts.
C26_ValidationIdempotent ==
    status = "revalidated" =>
        /\ node.weights = normalize_probabilities_float(given.weights)
        /\ \A j \in 1..Len(node.weights) : \A N \in 1..MaxSamples :
            default_num_samples_float(node.weights[j], N)
                = default_num_samples_float(
                    normalize_probabilities_float(given.weights)[j], N)

(***************************************************************************)
(* Properties: Interrupter                                                 *)
(***************************************************************************)
\* C27: of the signals _handle_signal handled since __enter__, the first
\* only set interrupted and every later one called the handler installed for
\* that signal before entry; interrupted stays True once set; after
\* __exit__ the handlers are those installed before entry; a disabled
\* Interrupter never installs its handler.
C27_InterrupterProtocol ==
    /\ handled # <<>> =>
            /\ handled[1].did = "set_interrupted"
            /\ interrupter.interrupted = "True"
    /\ \A k \in 2..Len(handled) :
            /\ handled[k].did = "called_old"
            /\ handled[k].handler = interrupter.handlers_at_entry[handled[k].signum]
    /\ (~interrupter.entered /\ interrupter.interrupted # "unset")
            => handlers = interrupter.handlers_at_entry
    /\ ~interrupter.enabled =>
            /\ \A s \in Signums : handlers[s] # "_handle_signal"
            /\ interrupter.old_signals = NoOldSignals

(***************************************************************************)
(* Properties: PushConfig.run                                              *)
(***************************************************************************)
\* C28: the new checkpoints are listed in ascending iteration order and
\* relinked in that order; the temporary directory is only rewritten while
\* no upload is submitted or running, so at most one upload is in flight and
\* it sees the directory holding its own checkpoint; the directory is
\* removed only when every upload has returned or raised.
C28_UploadsSerialised ==
    push_pc # "start" =>
        /\ \A j \in 1..(Len(new_checkpoint_paths) - 1) :
                new_checkpoint_paths[j] < new_checkpoint_paths[j + 1]
        /\ {new_checkpoint_paths[j] : j \in 1..Len(new_checkpoint_paths)}
                = export_dirs \ committed_iter_numbers
        /\ relinked = SubSeq(new_checkpoint_paths, 1, Len(relinked))
        /\ Cardinality(InFlight(futures)) <= 1
        /\ tmp_checkpoint_dir.rewriting => InFlight(futures) = {}
        /\ \A i \in InFlight(futures) :
                /\ tmp_checkpoint_dir.exists
                /\ ~tmp_checkpoint_dir.rewriting
                /\ tmp_checkpoint_dir.content = i
        /\ ~tmp_checkpoint_dir.exists =>
                /\ push_pc = "done"
                /\ InFlight(futures) = {}
                /\ \A j \in 1..Len(new_checkpoint_paths) :
                        futures[new_checkpoint_paths[j]] \in {"done", "failed"}

\* C28 witness: checkpoints 1 and 3 are new; 3 has been converted while the
\* upload of 1 is still running, and run() waits for it before relinking.
C28_Witness ==
    /\ push_pc = "wait"
    /\ new_checkpoint_paths = <<1, 3>>
    /\ loop_index = 2
    /\ relinked = <<1>>
    /\ commit_info = 1
    /\ futures[1] = "running"
    /\ tmp_checkpoint_dir.content = 1

=============================================================================
